---- MODULE Spec2Model ----
(***************************************************************************)
(* Model of the propulsion control system step (src/src/lib.rs).           *)
(*                                                                         *)
(* State: the fields of struct PropulsionControlSystem.  Operations:       *)
(* do_step, and the host overwriting the five inputs before a do_step.     *)
(*                                                                         *)
(* f64 values are modelled as records: a finite value is an exact          *)
(* fraction n/d in lowest terms, the others are +infinity, -infinity, NaN. *)
(* A finite result whose magnitude exceeds MaxFinite overflows to the      *)
(* infinity of its sign, as f64 arithmetic does beyond f64::MAX.  The      *)
(* input sets of Spec and SpecConst hold integers, and as divisors only    *)
(* powers of two and -MaxFinite, so every finite f64 operation there is    *)
(* exact and the fraction is the value f64 computes; rounding of other     *)
(* finite results (SpecTest) is not modelled.  -0.0 is not told apart from *)
(* 0.0 (they compare equal in every comparison of the code).  The f64      *)
(* operations are functions, so that an argument is evaluated once.        *)
(***************************************************************************)
EXTENDS Integers, FiniteSets, Sequences, TLC

\* ---------------------------------------------------------------- bounds
\* Largest finite magnitude (stands for f64::MAX).
MaxFinite == 32
\* Largest exponent k of the powers of two 2^k used as actual values.
MaxExp == 2

\* ------------------------------------------------------------ f64 values
Abs(i) == IF i < 0 THEN -i ELSE i

RECURSIVE GCD(_, _)
GCD(a, b) == IF b = 0 THEN a ELSE GCD(b, a % b)

RECURSIVE Pow2(_)
Pow2(k) == IF k = 0 THEN 1 ELSE 2 * Pow2(k - 1)

PInf == [k |-> "pinf", n |-> 0, d |-> 1]
NInf == [k |-> "ninf", n |-> 0, d |-> 1]
NaN == [k |-> "nan", n |-> 0, d |-> 1]

\* The f64 nearest to n/d (d # 0): the fraction in lowest terms, or an
\* infinity when the magnitude is beyond MaxFinite.
Fin(n, d) ==
    LET nn == IF d < 0 THEN -n ELSE n
        dd == Abs(d)
        g == GCD(Abs(nn), dd)
    IN IF nn > MaxFinite * dd THEN PInf
       ELSE IF -nn > MaxFinite * dd THEN NInf
       ELSE [k |-> "fin", n |-> nn \div g, d |-> dd \div g]

Zero == Fin(0, 1)
One == Fin(1, 1)
Half == Fin(1, 2)

IsFinite(x) == x.k = "fin"
IsNaN(x) == x.k = "nan"
IsInf(x) == x.k \in {"pinf", "ninf"}
Sign(x) == IF x.k = "pinf" THEN 1 ELSE IF x.k = "ninf" THEN -1
           ELSE IF x.n > 0 THEN 1 ELSE IF x.n < 0 THEN -1 ELSE 0

\* The values of an f64.
F64 == [k : {"fin", "pinf", "ninf", "nan"}, n : Int, d : Nat]

\* x < y, x > y, x == y of f64: false whenever an operand is NaN.
Lt(x, y) ==
    IF IsNaN(x) \/ IsNaN(y) THEN FALSE
    ELSE IF x.k = "pinf" \/ y.k = "ninf" THEN FALSE
    ELSE IF x.k = "ninf" \/ y.k = "pinf" THEN TRUE
    ELSE x.n * y.d < y.n * x.d
Gt(x, y) == Lt(y, x)
Eq(x, y) ==
    IF IsNaN(x) \/ IsNaN(y) THEN FALSE
    ELSE IF IsInf(x) \/ IsInf(y) THEN x.k = y.k
    ELSE x.n * y.d = y.n * x.d
Le(x, y) == Lt(x, y) \/ Eq(x, y)
Ge(x, y) == Le(y, x)

\* -x of f64.
Neg ==
    [x \in F64 |->
        IF IsNaN(x) THEN NaN
        ELSE IF x.k = "pinf" THEN NInf
        ELSE IF x.k = "ninf" THEN PInf
        ELSE Fin(-x.n, x.d)]

\* x + y of f64.
Add ==
    [x \in F64, y \in F64 |->
        IF IsNaN(x) \/ IsNaN(y) THEN NaN
        ELSE IF IsInf(x) /\ IsInf(y) THEN (IF x.k = y.k THEN x ELSE NaN)
        ELSE IF IsInf(x) THEN x
        ELSE IF IsInf(y) THEN y
        ELSE Fin(x.n * y.d + y.n * x.d, x.d * y.d)]

\* x - y of f64.
Sub == [x \in F64, y \in F64 |-> Add[x, Neg[y]]]

\* x / y of f64.
Div ==
    [x \in F64, y \in F64 |->
        IF IsNaN(x) \/ IsNaN(y) THEN NaN
        ELSE IF IsInf(x) /\ IsInf(y) THEN NaN
        ELSE IF IsInf(x) THEN (IF Sign(y) < 0 THEN Neg[x] ELSE x)
        ELSE IF IsInf(y) THEN Zero
        ELSE IF y.n = 0
            THEN (IF x.n = 0 THEN NaN ELSE IF x.n > 0 THEN PInf ELSE NInf)
        ELSE Fin(x.n * y.d, x.d * y.n)]

\* f64::min, f64::max: when one argument is NaN the other is returned.
f64_min ==
    [x \in F64, y \in F64 |->
        IF IsNaN(x) THEN y ELSE IF IsNaN(y) THEN x ELSE IF Lt(y, x) THEN y ELSE x]
f64_max ==
    [x \in F64, y \in F64 |->
        IF IsNaN(x) THEN y ELSE IF IsNaN(y) THEN x ELSE IF Lt(x, y) THEN y ELSE x]

\* ------------------------------------------------------------- the state
VARIABLES
    minimum_consumption_kgps,
    setpoint_consumption_kgps,
    setpoint_speed_mps,
    actual_consumption_kgps,
    actual_speed_mps,
    mode,
    lever_order,
    actual_consumption_relative_minimum_consumption,
    actual_speed_relative_setpoint_speed,
    actual_consumption_relative_setpoint_consumption,
    lever_before,   \* history: lever_order on entry to the last do_step
    stepped         \* history: do_step has run on the current inputs

inputs == <<minimum_consumption_kgps, setpoint_consumption_kgps, setpoint_speed_mps,
            actual_consumption_kgps, actual_speed_mps>>
outputs == <<mode, lever_order, actual_consumption_relative_minimum_consumption,
             actual_speed_relative_setpoint_speed,
             actual_consumption_relative_setpoint_consumption>>
vars == <<inputs, outputs, lever_before, stepped>>

\* ------------------------------------------------------------- the code
\* Each operator of the code is preceded by variants that carry one slip
\* (operands swapped, a comparison made non-strict, one side of the clamp
\* left out); the properties below are expected to tell them apart.

\* (actual - setpoint) / actual
calculate_relative_value_swapped(actual, setpoint) ==
    IF Eq(actual, Zero) THEN Zero ELSE Div[Sub[actual, setpoint], actual]

\* (setpoint - actual) / setpoint
calculate_relative_value_by_setpoint(actual, setpoint) ==
    IF Eq(actual, Zero) THEN Zero ELSE Div[Sub[setpoint, actual], setpoint]

\* fn calculate_relative_value(actual: f64, setpoint: f64) -> f64
calculate_relative_value(actual, setpoint) ==
    IF Eq(actual, Zero) THEN Zero ELSE Div[Sub[setpoint, actual], actual]

\* >= and <= in place of > and <
select_mode_nonstrict(dev_min, dev_cons, dev_speed) ==
    IF Ge(dev_min, f64_min[dev_cons, dev_speed]) THEN 0
    ELSE IF Le(dev_cons, dev_speed) THEN 1
    ELSE 2

\* the second comparison taken from the side of the speed deviation
select_mode_speed_first(dev_min, dev_cons, dev_speed) ==
    IF Gt(dev_min, f64_min[dev_cons, dev_speed]) THEN 0
    ELSE IF Lt(dev_speed, dev_cons) THEN 2
    ELSE 1

\* f64::max in place of f64::min in the first comparison
select_mode_max(dev_min, dev_cons, dev_speed) ==
    IF Gt(dev_min, f64_max[dev_cons, dev_speed]) THEN 0
    ELSE IF Lt(dev_cons, dev_speed) THEN 1
    ELSE 2

\* The if / else if / else chain of do_step: the mode it selects.
select_mode(dev_min, dev_cons, dev_speed) ==
    IF Gt(dev_min, f64_min[dev_cons, dev_speed]) THEN 0
    ELSE IF Lt(dev_cons, dev_speed) THEN 1
    ELSE 2

\* The deviation the selected branch adds to lever_order.
selected_deviation(m, dev_min, dev_cons, dev_speed) ==
    IF m = 0 THEN dev_min ELSE IF m = 1 THEN dev_cons ELSE dev_speed

\* lever_order = <deviation>, and lever_order - <deviation>
accumulate_overwrite(lever, dev) == dev

accumulate_subtract(lever, dev) == Sub[lever, dev]

\* self.lever_order = self.lever_order + <deviation>
accumulate(lever, dev) == Add[lever, dev]

\* one side of the clamp only
clamp_no_upper(x) == f64_max[Zero, x]

clamp_no_lower(x) == f64_min[One, x]

\* a clamp by comparisons, which lets NaN through
clamp_nan_propagating(x) ==
    IF Lt(x, Zero) THEN Zero ELSE IF Gt(x, One) THEN One ELSE x

\* f64::max(0.0, f64::min(1.0, x))
clamp(x) == f64_max[Zero, f64_min[One, x]]

\* do_step on a state whose inputs are mc, sc, ss, ac, as.  Each value the
\* code stores in a field is bound once, in the order the code computes it.
do_step_on(mc, sc, ss, ac, as) ==
    \E dev_min \in {calculate_relative_value(ac, mc)},
       dev_cons \in {calculate_relative_value(ac, sc)},
       dev_speed \in {calculate_relative_value(as, ss)} :
    \E m \in {select_mode(dev_min, dev_cons, dev_speed)} :
    \E sum \in {accumulate(lever_order,
                           selected_deviation(m, dev_min, dev_cons, dev_speed))} :
       /\ actual_consumption_relative_minimum_consumption' = dev_min
       /\ actual_consumption_relative_setpoint_consumption' = dev_cons
       /\ actual_speed_relative_setpoint_speed' = dev_speed
       /\ mode' = m
       /\ lever_order' = clamp(sum)
       /\ lever_before' = lever_order
       /\ stepped' = TRUE

\* ------------------------------------------------------------ input sets
I(n) == Fin(n, 1)
PowersOfTwo == {I(Pow2(k)) : k \in 0..MaxExp}

\* Finite inputs.  Every divisor (an actual value) is 0, a power of two or
\* -MaxFinite, so the finite results are exact in f64 as well.
MinimumValues == {I(1), I(3)}
SetpointConsumptionValues == {I(2), I(5)}
SetpointSpeedValues == {I(0), I(2), I(MaxFinite)}
ActualConsumptionValues == {I(0)} \cup PowersOfTwo
ActualSpeedValues == {I(-MaxFinite), Half, I(2), I(4)}
\* lever_order before the first step: Default (0.0), the tests' 0.5, and 1.0.
InitLevers == {Zero, Half, One}

\* The values of the unit tests (lines 153-185 and 119-134).
TestMinimumValues == {I(5), I(10)}
TestSetpointConsumptionValues == {I(10), I(20)}
TestSetpointSpeedValues == {I(10), PInf}
TestActualConsumptionValues == {I(9), I(10)}
TestActualSpeedValues == {I(10), I(11)}

\* Inputs that include the non-finite values.
ExtMinimumValues == {I(1), NInf}
ExtSetpointConsumptionValues == {I(2), PInf}
ExtSetpointSpeedValues == {I(2), PInf, NInf, NaN}
ExtActualConsumptionValues == {I(0), I(1), PInf}
ExtActualSpeedValues == {I(-1), I(2), PInf, NInf, NaN}

\* ---------------------------------------------------------------- Init
\* The struct as the tests build it: inputs and lever_order given, the
\* other outputs Default::default().
InitWith(M, SC, SS, AC, AS) ==
    /\ minimum_consumption_kgps \in M
    /\ setpoint_consumption_kgps \in SC
    /\ setpoint_speed_mps \in SS
    /\ actual_consumption_kgps \in AC
    /\ actual_speed_mps \in AS
    /\ lever_order \in InitLevers
    /\ mode = 0
    /\ actual_consumption_relative_minimum_consumption = Zero
    /\ actual_speed_relative_setpoint_speed = Zero
    /\ actual_consumption_relative_setpoint_consumption = Zero
    /\ lever_before = lever_order
    /\ stepped = FALSE

Init == InitWith(MinimumValues, SetpointConsumptionValues, SetpointSpeedValues,
                 ActualConsumptionValues, ActualSpeedValues)
InitTest == InitWith(TestMinimumValues, TestSetpointConsumptionValues,
                     TestSetpointSpeedValues, TestActualConsumptionValues,
                     TestActualSpeedValues)
InitExt == InitWith(ExtMinimumValues, ExtSetpointConsumptionValues,
                    ExtSetpointSpeedValues, ExtActualConsumptionValues,
                    ExtActualSpeedValues)

\* -------------------------------------------------------------- actions
\* do_step on the inputs as they are.
do_step ==
    /\ do_step_on(minimum_consumption_kgps, setpoint_consumption_kgps,
                  setpoint_speed_mps, actual_consumption_kgps, actual_speed_mps)
    /\ UNCHANGED inputs

\* The host overwrites the five inputs, then calls do_step.
HostStepWith(M, SC, SS, AC, AS) ==
    \E mc \in M, sc \in SC, ss \in SS, ac \in AC, as \in AS :
        /\ minimum_consumption_kgps' = mc
        /\ setpoint_consumption_kgps' = sc
        /\ setpoint_speed_mps' = ss
        /\ actual_consumption_kgps' = ac
        /\ actual_speed_mps' = as
        /\ do_step_on(mc, sc, ss, ac, as)

HostStep == HostStepWith(MinimumValues, SetpointConsumptionValues, SetpointSpeedValues,
                         ActualConsumptionValues, ActualSpeedValues)
HostStepTest == HostStepWith(TestMinimumValues, TestSetpointConsumptionValues,
                             TestSetpointSpeedValues, TestActualConsumptionValues,
                             TestActualSpeedValues)
HostStepExt == HostStepWith(ExtMinimumValues, ExtSetpointConsumptionValues,
                            ExtSetpointSpeedValues, ExtActualConsumptionValues,
                            ExtActualSpeedValues)

Next == HostStep \/ do_step
NextTest == HostStepTest \/ do_step
NextExt == HostStepExt \/ do_step

\* Finite inputs, overwritten before each step.
Spec == Init /\ [][Next]_vars
\* The inputs of the unit tests.
SpecTest == InitTest /\ [][NextTest]_vars
\* Inputs that may be infinite or NaN.
SpecExt == InitExt /\ [][NextExt]_vars
\* The same finite inputs in every step, and the host keeps stepping.
SpecConst == Init /\ [][do_step]_vars /\ WF_vars(do_step)

TypeOK ==
    /\ mode \in {0, 1, 2}
    /\ stepped \in BOOLEAN
    /\ \A x \in {lever_order, lever_before,
                 actual_consumption_relative_minimum_consumption,
                 actual_speed_relative_setpoint_speed,
                 actual_consumption_relative_setpoint_consumption} :
          x.k \in {"fin", "pinf", "ninf", "nan"} /\ x.d > 0

\* ------------------------------------------------- what the claims read
DevMin == actual_consumption_relative_minimum_consumption
DevCons == actual_consumption_relative_setpoint_consumption
DevSpeed == actual_speed_relative_setpoint_speed
\* The deviation the last step added, and the sum before the clamp.
SelDev == selected_deviation(mode, DevMin, DevCons, DevSpeed)
Sum == Add[lever_before, SelDev]
InUnitRange(x) == IsFinite(x) /\ 0 <= x.n /\ x.n <= x.d

\* The reference step of the specification, in its own words.
RefRel(a, r) == IF IsFinite(a) /\ a.n = 0 THEN Zero ELSE Div[Sub[r, a], a]
RefMin(x, y) == IF Lt(x, y) THEN x ELSE y
RefMax(x, y) == IF Lt(x, y) THEN y ELSE x
RefClamp(x) == IF Lt(x, Zero) THEN Zero ELSE IF Lt(One, x) THEN One ELSE x

\* ------------------------------------------------------------------ C1
\* C1: with finite inputs overwritten before each do_step, lever_order is
\* within [0.0, 1.0] after every step.
C1_LeverInRange == stepped => InUnitRange(lever_order)

\* A step whose sum left the range above 1 and was clamped to 1.
C1_Witness == stepped /\ IsFinite(Sum) /\ Lt(One, Sum) /\ lever_order = One

\* ------------------------------------------------------------------ C2
\* C2: one do_step equals the reference step: the three deviations are
\* rel(actual, reference); the first matching branch selects the mode and
\* the deviation added; lever_order is then clamped to [0, 1].
C2_ReferenceStep ==
    stepped =>
        LET dm == RefRel(actual_consumption_kgps, minimum_consumption_kgps)
            dc == RefRel(actual_consumption_kgps, setpoint_consumption_kgps)
            ds == RefRel(actual_speed_mps, setpoint_speed_mps)
        IN /\ DevMin = dm /\ DevCons = dc /\ DevSpeed = ds
           /\ IF Gt(dm, RefMin(dc, ds))
                 THEN mode = 0 /\ lever_order = RefClamp(Add[lever_before, dm])
              ELSE IF Lt(dc, ds)
                 THEN mode = 1 /\ lever_order = RefClamp(Add[lever_before, dc])
              ELSE mode = 2 /\ lever_order = RefClamp(Add[lever_before, ds])

\* A Consumption step that moved lever_order strictly inside (0, 1).
C2_Witness ==
    /\ stepped /\ mode = 1
    /\ lever_order # lever_before
    /\ Lt(Zero, lever_order) /\ Lt(lever_order, One)

\* ------------------------------------------------------------------ C3
\* C3 as stated: a step with a tie in the first comparison
\* (dev_min == min(dev_cons, dev_speed)), or one that reaches the second
\* comparison with dev_cons == dev_speed, selects mode Speed (2).
C3_TiesSelectSpeed ==
    stepped =>
        LET low == f64_min[DevCons, DevSpeed]
        IN (\/ Eq(DevMin, low)
            \/ (~Gt(DevMin, low) /\ Eq(DevCons, DevSpeed))) => mode = 2

\* C3 as amended: a tie in the first comparison falls through to the second
\* comparison; the step selects Speed (2) when dev_cons is not less than
\* dev_speed there (in particular when they are equal), and Consumption (1)
\* when the first comparison ties and dev_cons < dev_speed.
C3_TiesFallThrough ==
    stepped =>
        LET low == f64_min[DevCons, DevSpeed]
        IN /\ (\/ (Eq(DevMin, low) /\ ~Lt(DevCons, DevSpeed))
               \/ (~Gt(DevMin, low) /\ Eq(DevCons, DevSpeed))) => mode = 2
           /\ (Eq(DevMin, low) /\ Lt(DevCons, DevSpeed)) => mode = 1

\* A step where dev_min ties with dev_speed below dev_cons, selecting Speed.
C3_Witness ==
    /\ stepped /\ mode = 2
    /\ Eq(DevMin, DevSpeed) /\ Lt(DevSpeed, DevCons) /\ ~Eq(DevSpeed, Zero)

\* ------------------------------------------------------------------ C4
\* C4: a step from lever_order = 1 with a selected deviation >= 0 leaves it
\* at 1, and a step from 0 with a selected deviation <= 0 leaves it at 0;
\* so a further do_step on identical inputs keeps lever_order at that
\* boundary and selects the same mode.
C4_BoundaryAbsorption ==
    /\ [](stepped =>
            /\ (lever_before = One /\ Ge(SelDev, Zero)) => lever_order = One
            /\ (lever_before = Zero /\ Le(SelDev, Zero)) => lever_order = Zero)
    /\ [][(/\ stepped
           /\ inputs' = inputs
           /\ \/ (lever_order = One /\ Ge(SelDev, Zero))
              \/ (lever_order = Zero /\ Le(SelDev, Zero)))
          => (lever_order' = lever_order /\ mode' = mode)]_vars

\* A step from the upper boundary with a strictly positive deviation.
C4_Witness ==
    stepped /\ lever_before = One /\ Gt(SelDev, Zero) /\ lever_order = One

\* ------------------------------------------------------------------ C5
\* C5: a step with actual_speed == setpoint_speed, actual_consumption > 0
\* and minimum_consumption <= actual_consumption <= setpoint_consumption
\* selects mode Speed (2) and leaves lever_order exactly unchanged.
OnSetpoint ==
    /\ Eq(actual_speed_mps, setpoint_speed_mps)
    /\ Gt(actual_consumption_kgps, Zero)
    /\ Le(minimum_consumption_kgps, actual_consumption_kgps)
    /\ Le(actual_consumption_kgps, setpoint_consumption_kgps)

C5_OnSetpointFixedPoint ==
    (stepped /\ OnSetpoint) => (mode = 2 /\ lever_order = lever_before)

\* An on-setpoint step at lever_order 0.5 with consumption on its minimum.
C5_Witness ==
    /\ stepped /\ OnSetpoint
    /\ Eq(actual_consumption_kgps, minimum_consumption_kgps)
    /\ lever_before = Half /\ lever_order = Half

\* ------------------------------------------------------------------ C6
\* The three applications of calculate_relative_value in the last step:
\* <<actual, reference, result>>.
RelativeValues ==
    {<<actual_consumption_kgps, minimum_consumption_kgps, DevMin>>,
     <<actual_consumption_kgps, setpoint_consumption_kgps, DevCons>>,
     <<actual_speed_mps, setpoint_speed_mps, DevSpeed>>}

SignFollowsGap(p) ==
    /\ Gt(p[2], p[1]) => Gt(p[3], Zero)
    /\ Gt(p[1], p[2]) => Lt(p[3], Zero)

\* C6 as stated: for all finite inputs the relative value is positive when
\* the reference exceeds the actual value and negative when the actual
\* value exceeds the reference.
C6_SignAllInputs == stepped => \A p \in RelativeValues : SignFollowsGap(p)

\* C6 as amended: the same, for a positive actual value.
C6_SignPositiveActual ==
    stepped => \A p \in RelativeValues : Gt(p[1], Zero) => SignFollowsGap(p)

\* A step with a positive actual speed below its setpoint, and a positive
\* actual consumption above its minimum.
C6_Witness ==
    /\ stepped
    /\ Gt(actual_speed_mps, Zero) /\ Gt(setpoint_speed_mps, actual_speed_mps)
    /\ Gt(DevSpeed, Zero)
    /\ Gt(actual_consumption_kgps, minimum_consumption_kgps)
    /\ Lt(DevMin, Zero)

\* ------------------------------------------------------------------ C7
\* Scenario E of the tests, after its do_step.
ScenarioE ==
    /\ stepped
    /\ minimum_consumption_kgps = I(5)
    /\ setpoint_consumption_kgps = I(10)
    /\ setpoint_speed_mps = PInf
    /\ actual_consumption_kgps = I(9)
    /\ actual_speed_mps = I(11)
    /\ lever_before = Half

\* C7 as stated: in scenario E the speed deviation is very negative, the
\* mode is Consumption (1) and lever_order ends above 0.5.
C7_ScenarioENegative ==
    ScenarioE => (Lt(DevSpeed, Zero) /\ mode = 1 /\ Gt(lever_order, Half))

\* C7 as amended: in scenario E the speed deviation is +infinity, the mode
\* is Consumption (1) and lever_order ends above 0.5.
C7_ScenarioEPositive ==
    ScenarioE => (DevSpeed = PInf /\ mode = 1 /\ Gt(lever_order, Half))

C7_Witness == ScenarioE /\ mode = 1 /\ Lt(lever_order, One)

\* ------------------------------------------------------------------ C8
\* C8: after every do_step lever_order is finite and in [0, 1], also when
\* inputs, a deviation or the sum before the clamp is infinite or NaN; a
\* non-finite sum ends on the boundary 0 or 1.
C8_ClampSafetyNet ==
    stepped =>
        /\ InUnitRange(lever_order)
        /\ ~IsFinite(Sum) => lever_order \in {Zero, One}

\* A step whose sum before the clamp is NaN.
C8_Witness == stepped /\ IsNaN(Sum) /\ IsNaN(SelDev) /\ lever_order = One

\* ------------------------------------------------------------------ C9
\* C9: the amount a step adds before the clamp is
\* max(dev_min, min(dev_cons, dev_speed)) in every mode, so never less than
\* dev_min; and a step with 0 < actual_consumption < minimum_consumption
\* never decreases lever_order.
C9_FloorDominance ==
    stepped =>
        LET floor == RefMax(DevMin, RefMin(DevCons, DevSpeed))
        IN /\ SelDev = floor
           /\ lever_order = RefClamp(Add[lever_before, floor])
           /\ ~Lt(SelDev, DevMin)
           /\ (/\ Gt(actual_consumption_kgps, Zero)
               /\ Lt(actual_consumption_kgps, minimum_consumption_kgps))
              => (Gt(DevMin, Zero) /\ Ge(lever_order, lever_before))

\* Consumption below the minimum, yet another mode selected, lever raised.
C9_Witness ==
    /\ stepped /\ mode # 0
    /\ Gt(actual_consumption_kgps, Zero)
    /\ Lt(actual_consumption_kgps, minimum_consumption_kgps)
    /\ Gt(lever_order, lever_before)

\* ----------------------------------------------------------------- C10
\* C10: with the same finite inputs in every do_step, every step selects
\* the same mode and deviation d, lever_order never moves against the sign
\* of d, and for d # 0 it reaches 1 (d > 0) or 0 (d < 0) and stays there.
C10_Saturation ==
    /\ [][/\ stepped => (mode' = mode /\ SelDev' = SelDev)
          /\ Gt(SelDev', Zero) => Ge(lever_order', lever_order)
          /\ Lt(SelDev', Zero) => Le(lever_order', lever_order)]_vars
    /\ <>[](/\ stepped
            /\ Gt(SelDev, Zero) => lever_order = One
            /\ Lt(SelDev, Zero) => lever_order = Zero)

\* A step on the way up that has not reached the boundary yet.
C10_Witness ==
    /\ stepped /\ Gt(SelDev, Zero)
    /\ lever_before = Half /\ Lt(lever_order, One) /\ Gt(lever_order, Half)
====
